---- MODULE Spec2Model ----
(***************************************************************************)
(* A model of stm32pio/core/util.py: the time-bounded cache around the     *)
(* PlatformIO boards listing (get_platformio_boards), the recursive        *)
(* dictionary clean-up (cleanup_dict) and the ConfigParser-to-dict         *)
(* conversion (configparser_to_dict).                                      *)
(*                                                                         *)
(* Python lists are objects with identity: the module global               *)
(* _pio_boards_cache holds a reference into `heap`, and so does every list *)
(* handed to a caller.  Three specifications share the variables:          *)
(*   Spec      one caller, each call of get_platformio_boards atomic       *)
(*   ConcSpec  several threads running get_platformio_boards line by line  *)
(*   DictSpec  cleanup_dict and configparser_to_dict applied to inputs     *)
(***************************************************************************)
EXTENDS Integers, Sequences, FiniteSets, TLC

VARIABLES
    clock,                   \* time.time(), in whole time units
    _pio_boards_cache,       \* util.py:48, a reference to a list object
    _pio_boards_fetched_at,  \* util.py:50
    heap,                    \* list objects: address -> sequence of board ids
    held,                    \* the list the caller got from its last successful call
    last,                    \* record of the most recent call (Spec)
    prev,                    \* what the call before it did (Spec)
    lastFetch,               \* ids produced by the last refresh that completed
    pc,                      \* where each thread is in get_platformio_boards (ConcSpec)
    now,                     \* each thread's current_time
    records,                 \* each thread's parsed output of the command
    idx,                     \* how many records its comprehension has consumed
    target,                  \* the list its comprehension is filling
    got,                     \* the list the thread was returned
    whole,                   \* per list object, the full id sequence it stands for
    mode,                    \* which helper has been applied to which input (DictSpec)
    mapping,                 \* the nested mapping given to cleanup_dict
    config,                  \* the ConfigParser given to configparser_to_dict
    flat,                    \* configparser_to_dict(config)
    cleaned,                 \* the result of cleanup_dict
    again                    \* the result of cleanup_dict on its own result

cacheVars == <<clock, _pio_boards_cache, _pio_boards_fetched_at, heap, held,
               last, prev, lastFetch>>
concVars  == <<pc, now, records, idx, target, got, whole>>
dictVars  == <<mode, mapping, config, flat, cleaned, again>>
vars      == <<cacheVars, concVars, dictVars>>

(***************************************************************************)
(* Bounds of the model.                                                    *)
(***************************************************************************)
StartTime == 6      \* the clock at start-up (time.time() is far beyond the lifetime)
MaxTime   == 12     \* the clock stops here
MaxLen    == 2      \* records in one output of the external command
NumAddr   == 3      \* list objects alive at once
MaxNodes  == 4      \* entries, over all levels, of a nested mapping
MaxDepth  == 2      \* nesting depth of a nested mapping

(***************************************************************************)
(* Program constants.                                                      *)
(***************************************************************************)
_pio_boards_cache_lifetime == 5

ThreadOrder == <<"t1", "t2">>
Threads == {ThreadOrder[i] : i \in 1..Len(ThreadOrder)}
Addr    == 1..NumAddr
NoRef   == 0
NoId    == "<no id>"
Family  == "stm32cube"

(***************************************************************************)
(* What the external command can print: a JSON array of board records.     *)
(* A record has a category (its framework) and usually an id.              *)
(***************************************************************************)
BoardRecords ==
    { [id |-> "b1", framework |-> Family],
      [id |-> "b2", framework |-> "arduino"],
      [id |-> NoId, framework |-> Family] }

SeqsUpTo(S, n) == UNION { [1..k -> S] : k \in 0..n }

Outcomes ==
    { [kind |-> "ok", records |-> r] : r \in SeqsUpTo(BoardRecords, MaxLen) }
    \cup { [kind |-> "nonzero_exit", records |-> <<>>],
           [kind |-> "bad_json",     records |-> <<>>] }

NoOutcome == [kind |-> "not_run", records |-> <<>>]

\* How long the external command may run.
Durations == {0, _pio_boards_cache_lifetime + 1}

(***************************************************************************)
(* get_platformio_boards, util.py:52-72, piece by piece.                   *)
(***************************************************************************)

\* (variant) the age test turned round: young entries are refetched
IsStaleWhenYoung(cached, current_time, fetched_at) ==
    Len(cached) = 0 \/ (current_time - fetched_at < _pio_boards_cache_lifetime)

\* (variant) an entry exactly as old as the lifetime counts as expired
IsStaleAtLifetime(cached, current_time, fetched_at) ==
    Len(cached) = 0 \/ (current_time - fetched_at >= _pio_boards_cache_lifetime)

\* line 64: the condition under which the external command is run
IsStale(cached, current_time, fetched_at) ==
    Len(cached) = 0 \/ (current_time - fetched_at > _pio_boards_cache_lifetime)

\* lines 66-68: subprocess.run(..., check=True) raises CalledProcessError on a
\* non-zero exit (a missing command is exit status 127 of the shell)
RunRaises(out) == out.kind = "nonzero_exit"

\* line 69: json.loads raises JSONDecodeError on malformed output
LoadsRaises(out) == out.kind = "bad_json"

HasId(board) == board.id # NoId

\* line 69: board['id'] raises KeyError on a record without the field
LookupRaises(boards) == \E i \in 1..Len(boards) : ~HasId(boards[i])

\* (variant) the comprehension filters on the category itself
BoardIdsOfFamily(boards) ==
    LET kept == SelectSeq(boards, LAMBDA b : b.framework = Family)
    IN  [i \in 1..Len(kept) |-> kept[i].id]

\* line 69: [board['id'] for board in json.loads(result.stdout)]
BoardIds(boards) == [i \in 1..Len(boards) |-> boards[i].id]

\* lines 66-69 ran to the end without raising
Completes(out) == ~RunRaises(out) /\ ~LoadsRaises(out) /\ ~LookupRaises(out.records)

\* (variant) the cache is reset before the command is run
CacheAfterReset(oldRef, newRef, completed) == newRef

\* line 69: the global is rebound only when the right-hand side was evaluated
CacheAfter(oldRef, newRef, completed) == IF completed THEN newRef ELSE oldRef

\* (variant) the timestamp is stored before the command is run
FetchedAtAfterEarly(old, current_time, completed) == current_time

\* line 70: reached only when line 69 did not raise
FetchedAtAfter(old, current_time, completed) == IF completed THEN current_time ELSE old

\* (variant) the clock is read again when the fetch is over
StampAtEnd(startTime, endTime) == endTime

\* lines 63, 70: the timestamp stored is the one read at the start of the call
StampOf(startTime, endTime) == startTime

\* (variant) the cached list itself is returned
ReturnCached(cacheRef, freshRef) == cacheRef

\* line 72: copy.copy makes a new list object
ReturnRef(cacheRef, freshRef) == freshRef

\* (variant) the cached list is cleared and refilled in place
BuildInPlace(cacheRef, freshRef) == cacheRef

\* line 69: the comprehension builds a new list object, not the cached one
BuildTarget(cacheRef, freshRef) == freshRef

Cached == heap[_pio_boards_cache]

\* the lowest address no live reference points at
Fresh(live) == CHOOSE a \in Addr : a \notin live /\ \A b \in Addr : b \notin live => a <= b

\* Objects nothing refers to any more are collected and the live ones are moved
\* to the position of their first root: addresses carry no meaning of their own.
Moved(roots, r) ==
    IF r = NoRef THEN NoRef
    ELSE CHOOSE i \in 1..Len(roots) :
             roots[i] = r /\ \A j \in 1..Len(roots) : roots[j] = r => i <= j

Collect(h, roots) ==
    [a \in Addr |->
        IF \E i \in 1..Len(roots) : roots[i] # NoRef /\ Moved(roots, roots[i]) = a
          THEN h[roots[a]]
          ELSE <<>>]

NoCall == [called |-> FALSE, start |-> 0, end |-> 0, invoked |-> 0, result |-> "none",
           out |-> NoOutcome, before_cache |-> <<>>, before_at |-> 0, returned |-> <<>>]

NoPrev == [called |-> FALSE, invoked |-> 0, completed |-> FALSE]

InitCache ==
    /\ clock = StartTime
    /\ _pio_boards_cache = 1
    /\ _pio_boards_fetched_at = 0
    /\ heap = [a \in Addr |-> <<>>]
    /\ held = NoRef
    /\ last = NoCall
    /\ prev = NoPrev
    /\ lastFetch = <<>>

InitConc ==
    /\ pc = [t \in Threads |-> "idle"]
    /\ now = [t \in Threads |-> 0]
    /\ records = [t \in Threads |-> <<>>]
    /\ idx = [t \in Threads |-> 0]
    /\ target = [t \in Threads |-> NoRef]
    /\ got = [t \in Threads |-> NoRef]
    /\ whole = [a \in Addr |-> <<>>]

InitDict ==
    /\ mode = "none"
    /\ mapping = <<>>
    /\ config = [defaults |-> <<>>, sections |-> <<>>]
    /\ flat = <<>>
    /\ cleaned = <<>>
    /\ again = <<>>

Init == InitCache /\ InitConc /\ InitDict

(***************************************************************************)
(* Spec: one caller.                                                       *)
(***************************************************************************)

\* One whole call of get_platformio_boards.  `out` is what the external
\* command does if it is run, `d` how long it takes.
get_platformio_boards(out, d) ==
    LET current_time == clock                                   \* line 63
        cached    == heap[_pio_boards_cache]
        stale     == IsStale(cached, current_time, _pio_boards_fetched_at)
        completed == stale /\ Completes(out)
        raised    == stale /\ ~Completes(out)
        endTime   == IF stale THEN clock + d ELSE clock
        newList   == Fresh({_pio_boards_cache, held})
        cacheRef  == CacheAfter(_pio_boards_cache, newList, completed)
        heap1     == IF completed
                       THEN [heap EXCEPT ![newList] = BoardIds(out.records)]
                       ELSE heap
        copyAt    == Fresh({cacheRef, held})
        retRef    == ReturnRef(cacheRef, copyAt)
        heap2     == [heap1 EXCEPT ![copyAt] = heap1[cacheRef]]
        heldRef   == IF raised THEN held ELSE retRef
    IN  /\ endTime <= MaxTime
        /\ stale \/ (out = NoOutcome /\ d = 0)
        /\ ~stale \/ out # NoOutcome
        /\ clock' = endTime
        /\ _pio_boards_cache' = Moved(<<cacheRef, heldRef>>, cacheRef)
        /\ _pio_boards_fetched_at' =
               FetchedAtAfter(_pio_boards_fetched_at, StampOf(current_time, endTime),
                              completed)
        /\ held' = Moved(<<cacheRef, heldRef>>, heldRef)
        /\ heap' = Collect(IF raised THEN heap1 ELSE heap2, <<cacheRef, heldRef>>)
        /\ lastFetch' = IF completed THEN BoardIds(out.records) ELSE lastFetch
        /\ prev' = [called |-> last.called, invoked |-> last.invoked,
                    completed |-> last.invoked = 1 /\ last.result = "ok"]
        /\ last' = [called |-> TRUE, start |-> current_time, end |-> endTime,
                    invoked |-> IF stale THEN 1 ELSE 0,
                    result |-> IF raised THEN "error" ELSE "ok",
                    out |-> IF stale THEN out ELSE NoOutcome,
                    before_cache |-> cached,
                    before_at |-> _pio_boards_fetched_at,
                    returned |-> IF raised THEN <<>> ELSE heap2[retRef]]
        /\ UNCHANGED <<concVars, dictVars>>

Call == \E out \in Outcomes \cup {NoOutcome}, d \in Durations : get_platformio_boards(out, d)

\* Time passes between calls.
Tick ==
    /\ clock < MaxTime
    /\ clock' = clock + 1
    /\ UNCHANGED <<_pio_boards_cache, _pio_boards_fetched_at, heap, held, last, prev,
                   lastFetch, concVars, dictVars>>

\* The caller changes the list it was given: append, remove, overwrite.
CallerAppend ==
    /\ held # NoRef
    /\ Len(heap[held]) < MaxLen
    /\ \E b \in {"b1", "b2"} : heap' = [heap EXCEPT ![held] = Append(@, b)]
    /\ UNCHANGED <<clock, _pio_boards_cache, _pio_boards_fetched_at, held, last, prev,
                   lastFetch, concVars, dictVars>>

CallerRemove ==
    /\ held # NoRef
    /\ Len(heap[held]) > 0
    /\ heap' = [heap EXCEPT ![held] = Tail(@)]
    /\ UNCHANGED <<clock, _pio_boards_cache, _pio_boards_fetched_at, held, last, prev,
                   lastFetch, concVars, dictVars>>

CallerOverwrite ==
    /\ held # NoRef
    /\ Len(heap[held]) > 0
    /\ \E b \in {"b1", "b2"} : heap' = [heap EXCEPT ![held] = [@ EXCEPT ![1] = b]]
    /\ UNCHANGED <<clock, _pio_boards_cache, _pio_boards_fetched_at, held, last, prev,
                   lastFetch, concVars, dictVars>>

Next == Call \/ Tick \/ CallerAppend \/ CallerRemove \/ CallerOverwrite

Spec == Init /\ [][Next]_vars

TypeOK ==
    /\ clock \in StartTime..MaxTime
    /\ _pio_boards_cache \in Addr
    /\ _pio_boards_fetched_at \in 0..MaxTime
    /\ held \in Addr \cup {NoRef}

(***************************************************************************)
(* Properties of get_platformio_boards with one caller (Spec).             *)
(***************************************************************************)

\* The external command printed a well-formed array whose records all have an id.
GoodOutput(out) ==
    /\ out.kind = "ok"
    /\ \A i \in 1..Len(out.records) : out.records[i].id # NoId


Age == last.start - last.before_at

\* Two consecutive calls, the first of which fetched, the second made within
\* the lifetime of that fetch.
SecondWithinWindow ==
    /\ prev.called /\ prev.completed /\ last.called
    /\ Age <= _pio_boards_cache_lifetime

\* C1 as stated: of two consecutive calls within the freshness window of the
\* first call's fetch, whatever list the command returned, only the first runs
\* the external command.
C1_AnyList == SecondWithinWindow => prev.invoked + last.invoked = 1

\* C1: of two consecutive calls within the freshness window of the first call's
\* fetch, only the first runs the external command, provided that fetch
\* returned at least one id.
C1_OnceWithinWindow ==
    (SecondWithinWindow /\ Len(last.before_cache) > 0)
        => (prev.invoked + last.invoked = 1 /\ last.returned = last.before_cache)

C1_Witness ==
    /\ SecondWithinWindow
    /\ Len(last.before_cache) > 0
    /\ Age = _pio_boards_cache_lifetime
    /\ last.invoked = 0

\* The cache entry is the one the last call fetched.
EntryReplaced ==
    /\ last.result = "ok"
    /\ Len(Cached) = Len(last.out.records)
    /\ \A i \in 1..Len(Cached) : Cached[i] = last.out.records[i].id
    /\ _pio_boards_fetched_at = last.start

\* C2 as stated: after a successful fetch, a call at an age above the lifetime
\* runs the command once and replaces the entry; a call at an age up to the
\* lifetime does not run it.
C2_AsStated ==
    (last.called /\ last.before_at > 0)
        => IF Age > _pio_boards_cache_lifetime
             THEN last.invoked = 1 /\ EntryReplaced
             ELSE last.invoked = 0

\* C2: after a successful fetch, a call at an age above the lifetime runs the
\* command once, and replaces the entry when the command succeeds with
\* well-formed output; a call at an age up to the lifetime does not run the
\* command when the cached sequence is not empty.
C2_Expiry ==
    (last.called /\ last.before_at > 0)
        => IF Age > _pio_boards_cache_lifetime
             THEN last.invoked = 1 /\ (GoodOutput(last.out) => EntryReplaced)
             ELSE Len(last.before_cache) > 0 => last.invoked = 0

C2_Witness ==
    /\ last.called /\ last.before_at > 0
    /\ Age = _pio_boards_cache_lifetime + 1
    /\ last.invoked = 1
    /\ EntryReplaced
    /\ Len(last.before_cache) > 0
    /\ Cached # last.before_cache

RefreshFailed == last.called /\ last.invoked = 1 /\ ~GoodOutput(last.out)

\* C3: a refresh that fails (non-zero exit, malformed output, a record without
\* id) leaves the cached sequence and the timestamp as they were and ends the
\* call with an error.
C3_FailureKeepsEntry ==
    RefreshFailed
        => /\ Cached = last.before_cache
           /\ _pio_boards_fetched_at = last.before_at
           /\ last.result = "error"

C3_Witness ==
    /\ RefreshFailed
    /\ last.out.kind = "ok"
    /\ Len(last.before_cache) > 0
    /\ last.before_at > 0

\* C4 as stated: a refresh that fails after an earlier successful fetch still
\* returns the cached sequence, and no exception reaches the caller.
C4_AsStated ==
    (RefreshFailed /\ last.before_at > 0)
        => (last.result = "ok" /\ last.returned = last.before_cache)

\* C4: a refresh that fails after an earlier successful fetch keeps the
\* previously cached sequence in the cache, but the call returns no list: the
\* exception reaches the caller, whose own list is what it was.
C4_FailureRaises ==
    (RefreshFailed /\ last.before_at > 0)
        => /\ Cached = last.before_cache
           /\ last.result = "error"
           /\ last.returned = <<>>
           /\ held # _pio_boards_cache

C4_Witness ==
    /\ RefreshFailed /\ last.before_at > 0
    /\ last.out.kind = "nonzero_exit"
    /\ Len(Cached) = MaxLen
    /\ held # NoRef

\* C5: the caller's list is an object of its own: whatever the caller does to
\* it, the cached sequence is the result of the last completed fetch, and a
\* call served from the cache returns that sequence.
C5_CopyIndependent ==
    /\ held # _pio_boards_cache
    /\ Cached = lastFetch
    /\ (last.called /\ last.invoked = 0) => last.returned = lastFetch

C5_Witness ==
    /\ last.called /\ last.invoked = 0
    /\ prev.called /\ prev.invoked = 0
    /\ held # NoRef
    /\ Len(lastFetch) > 0
    /\ Len(heap[held]) = Len(lastFetch)
    /\ heap[held] # lastFetch

InFamily(board) == board.framework = Family

C10_StampIsStartTime ==
    (last.called /\ last.invoked = 1 /\ last.result = "ok")
        => /\ _pio_boards_fetched_at = last.start
           /\ _pio_boards_fetched_at <= last.end
           /\ (last.end - last.start > _pio_boards_cache_lifetime)
                  => IsStale(Cached, clock, _pio_boards_fetched_at)

C10_Witness ==
    /\ last.called /\ last.invoked = 1 /\ last.result = "ok"
    /\ last.end - last.start > _pio_boards_cache_lifetime
    /\ Len(Cached) > 0
    /\ clock = last.end

(***************************************************************************)
(* ConcSpec: threads run get_platformio_boards with nothing between them   *)
(* but the interpreter's own atomic steps: a load or store of a global, a  *)
(* list append, a list copy.                                               *)
(***************************************************************************)

Roots(cacheRef, building, returned) ==
    <<cacheRef>> \o [i \in 1..Len(ThreadOrder) |->
                        IF building[ThreadOrder[i]] # NoRef
                          THEN building[ThreadOrder[i]]
                          ELSE returned[ThreadOrder[i]]]

Live == {_pio_boards_cache} \cup {target[t] : t \in Threads} \cup {got[t] : t \in Threads}

\* The references and objects after a step, dead objects collected.
Settle(cacheRef, building, returned, h, w) ==
    LET roots == Roots(cacheRef, building, returned)
    IN  /\ _pio_boards_cache' = Moved(roots, cacheRef)
        /\ target' = [t \in Threads |-> Moved(roots, building[t])]
        /\ got' = [t \in Threads |-> Moved(roots, returned[t])]
        /\ heap' = Collect(h, roots)
        /\ whole' = Collect(w, roots)

\* line 63: a call begins; the list of the thread's previous call is dropped
Begin(t) ==
    /\ pc[t] \in {"idle", "done", "raised"}
    /\ pc' = [pc EXCEPT ![t] = "check"]
    /\ now' = [now EXCEPT ![t] = clock]
    /\ Settle(_pio_boards_cache, target, [got EXCEPT ![t] = NoRef], heap, whole)
    /\ UNCHANGED <<records, idx, clock, _pio_boards_fetched_at, held, last, prev,
                   lastFetch, dictVars>>

\* line 64
Check(t) ==
    /\ pc[t] = "check"
    /\ pc' = [pc EXCEPT ![t] =
                 IF IsStale(heap[_pio_boards_cache], now[t], _pio_boards_fetched_at)
                   THEN "run" ELSE "return"]
    /\ UNCHANGED <<now, records, idx, target, got, whole, cacheVars, dictVars>>

\* lines 66-69: the command ends and its output is parsed; the comprehension
\* starts on an empty list
Run(t, out) ==
    /\ pc[t] = "run"
    /\ IF RunRaises(out) \/ LoadsRaises(out)
         THEN /\ pc' = [pc EXCEPT ![t] = "raised"]
              /\ UNCHANGED <<records, idx, target, got, whole, heap, _pio_boards_cache>>
         ELSE LET new == BuildTarget(_pio_boards_cache, Fresh(Live))
              IN  /\ pc' = [pc EXCEPT ![t] = "build"]
                  /\ records' = [records EXCEPT ![t] = out.records]
                  /\ idx' = [idx EXCEPT ![t] = 0]
                  /\ Settle(_pio_boards_cache, [target EXCEPT ![t] = new], got,
                            [heap EXCEPT ![new] = <<>>],
                            [whole EXCEPT ![new] = BoardIds(out.records)])
    /\ UNCHANGED <<now, clock, _pio_boards_fetched_at, held, last, prev, lastFetch,
                   dictVars>>

\* line 69: one turn of the comprehension, board['id'] appended or KeyError
BuildStep(t) ==
    /\ pc[t] = "build"
    /\ idx[t] < Len(records[t])
    /\ LET board == records[t][idx[t] + 1]
       IN  IF HasId(board)
             THEN /\ heap' = [heap EXCEPT ![target[t]] = Append(@, board.id)]
                  /\ idx' = [idx EXCEPT ![t] = @ + 1]
                  /\ UNCHANGED <<pc, records, target, got, whole, _pio_boards_cache>>
             ELSE /\ pc' = [pc EXCEPT ![t] = "raised"]
                  /\ records' = [records EXCEPT ![t] = <<>>]
                  /\ idx' = [idx EXCEPT ![t] = 0]
                  /\ Settle(_pio_boards_cache, [target EXCEPT ![t] = NoRef], got,
                            heap, whole)
    /\ UNCHANGED <<now, clock, _pio_boards_fetched_at, held, last, prev, lastFetch,
                   dictVars>>

\* line 69: the finished list is bound to the global
StoreCache(t) ==
    /\ pc[t] = "build"
    /\ idx[t] = Len(records[t])
    /\ pc' = [pc EXCEPT ![t] = "stamp"]
    /\ records' = [records EXCEPT ![t] = <<>>]
    /\ idx' = [idx EXCEPT ![t] = 0]
    /\ Settle(target[t], [target EXCEPT ![t] = NoRef], got, heap, whole)
    /\ UNCHANGED <<now, clock, _pio_boards_fetched_at, held, last, prev, lastFetch,
                   dictVars>>

\* line 70
StoreStamp(t) ==
    /\ pc[t] = "stamp"
    /\ pc' = [pc EXCEPT ![t] = "return"]
    /\ _pio_boards_fetched_at' = now[t]
    /\ UNCHANGED <<now, records, idx, target, got, whole, clock, _pio_boards_cache,
                   heap, held, last, prev, lastFetch, dictVars>>

\* line 72
Return(t) ==
    /\ pc[t] = "return"
    /\ pc' = [pc EXCEPT ![t] = "done"]
    /\ LET ref == ReturnRef(_pio_boards_cache, Fresh(Live))
       IN  Settle(_pio_boards_cache, target, [got EXCEPT ![t] = ref],
                  [heap EXCEPT ![ref] = heap[_pio_boards_cache]],
                  [whole EXCEPT ![ref] = whole[_pio_boards_cache]])
    /\ UNCHANGED <<now, records, idx, clock, _pio_boards_fetched_at, held, last, prev,
                   lastFetch, dictVars>>

\* Time passes while the threads run; here in steps that let an entry expire.
Pause ==
    /\ clock + _pio_boards_cache_lifetime + 1 <= MaxTime
    /\ clock' = clock + _pio_boards_cache_lifetime + 1
    /\ UNCHANGED <<_pio_boards_cache, _pio_boards_fetched_at, heap, held, last, prev,
                   lastFetch, concVars, dictVars>>

ConcNext ==
    \/ \E t \in Threads :
          \/ Begin(t)
          \/ Check(t)
          \/ \E out \in Outcomes : Run(t, out)
          \/ BuildStep(t)
          \/ StoreCache(t)
          \/ StoreStamp(t)
          \/ Return(t)
    \/ Pause

ConcSpec == Init /\ [][ConcNext]_vars

\* C9: with any number of unsynchronised callers, the cached sequence, and
\* every list a caller was returned, is empty or the whole result of one
\* refresh, never a part of one.
C9_NeverPartial ==
    /\ Cached = <<>> \/ Cached = whole[_pio_boards_cache]
    /\ \A t \in Threads :
          got[t] # NoRef => (heap[got[t]] = <<>> \/ heap[got[t]] = whole[got[t]])

\* one thread is half-way through its comprehension while the other is
\* returned a complete, non-empty list
C9_Witness ==
    \E t, u \in Threads :
        /\ pc[t] = "build" /\ idx[t] = 1 /\ Len(records[t]) = MaxLen
        /\ pc[u] = "done" /\ got[u] # NoRef
        /\ Len(heap[got[u]]) = MaxLen
        /\ Len(Cached) = MaxLen

(***************************************************************************)
(* DictSpec: cleanup_dict and configparser_to_dict.                        *)
(*                                                                         *)
(* A Python value is a record of its type, its literal and, for a dict,    *)
(* its items; a mapping is a function from its keys to values.             *)
(***************************************************************************)

Scalar(type, repr) == [type |-> type, repr |-> repr, items |-> <<>>]
Dict(items) == [type |-> "dict", repr |-> "", items |-> items]

PyNone    == Scalar("NoneType", "None")
Str(s)    == Scalar("str", s)
PyZero    == Scalar("int", "0")
PyFalse   == Scalar("bool", "False")
EmptyList == Scalar("list", "[]")

Scalars == {PyNone, Str(""), Str("x"), PyZero, PyFalse, EmptyList}
Keys    == {"a", "b"}

\* util.py:80: isinstance(value, collections.abc.Mapping)
IsMapping(value) == value.type = "dict"

\* (variant) the test is the truth value of the value
KeepScalarIfTruthy(value) ==
    /\ value.type # "NoneType"
    /\ ~(value.type = "str" /\ value.repr = "")
    /\ value # PyZero /\ value # PyFalse /\ value # EmptyList

\* util.py:82: value is not None and value != ''
KeepScalar(value) ==
    /\ value.type # "NoneType"
    /\ ~(value.type = "str" /\ value.repr = "")

RECURSIVE cleanup_dict_unless_empty(_)
\* (variant) a sub-mapping is copied only when it has items
cleanup_dict_unless_empty(m) ==
    LET kept == { key \in DOMAIN m :
                    IF IsMapping(m[key]) THEN DOMAIN m[key].items # {}
                                         ELSE KeepScalar(m[key]) }
    IN  [key \in kept |->
            IF IsMapping(m[key]) THEN Dict(cleanup_dict_unless_empty(m[key].items))
                                 ELSE m[key]]

RECURSIVE cleanup_dict(_)
\* util.py:75-85
cleanup_dict(m) ==
    LET kept == { key \in DOMAIN m : IsMapping(m[key]) \/ KeepScalar(m[key]) }
    IN  [key \in kept |->
            IF IsMapping(m[key]) THEN Dict(cleanup_dict(m[key].items))
                                 ELSE m[key]]

\* A ConfigParser: its DEFAULT section and its named sections; a value is a
\* string, or None for an option written without a value.  The values here
\* hold no '%', so interpolation leaves them as they are.
config_sections(cfg) == DOMAIN cfg.sections

\* config.items(section): the defaults, overridden by the section's own options
config_items(cfg, section) ==
    LET own == cfg.sections[section]
    IN  [key \in DOMAIN cfg.defaults \cup DOMAIN own |->
            IF key \in DOMAIN own THEN own[key] ELSE cfg.defaults[key]]

\* util.py:88-90
configparser_to_dict(cfg) ==
    [section \in config_sections(cfg) |-> Dict(config_items(cfg, section))]

(***************************************************************************)
(* The inputs of DictSpec.                                                 *)
(***************************************************************************)
Put(m, key, value) == [x \in DOMAIN m \cup {key} |-> IF x = key THEN value ELSE m[x]]

RECURSIVE Size(_)
Size(m) ==
    IF DOMAIN m = {} THEN 0
    ELSE LET key == CHOOSE x \in DOMAIN m : TRUE
             rest == [x \in DOMAIN m \ {key} |-> m[x]]
         IN  1 + (IF IsMapping(m[key]) THEN Size(m[key].items) ELSE 0) + Size(rest)

\* the mappings over `keys`, nested `depth` deep at most, of `nodes` entries at most
RECURSIVE MappingsOver(_, _, _)
MappingsOver(keys, depth, nodes) ==
    IF keys = {} \/ nodes = 0 THEN {<<>>}
    ELSE LET key  == CHOOSE x \in keys : TRUE
             rest == keys \ {key}
         IN  MappingsOver(rest, depth, nodes)
             \cup { Put(m, key, v) : v \in Scalars, m \in MappingsOver(rest, depth, nodes - 1) }
             \cup (IF depth <= 1 THEN {}
                   ELSE UNION { { Put(m, key, Dict(sub)) :
                                    m \in MappingsOver(rest, depth, nodes - 1 - Size(sub)) } :
                                sub \in MappingsOver(Keys, depth - 1, nodes - 1) })

NestedMappings == MappingsOver(Keys, MaxDepth, MaxNodes)

OptionValues == {Str("v1"), Str(""), PyNone}
Options(keys) == UNION { [ks -> OptionValues] : ks \in SUBSET keys }

Configs ==
    { [defaults |-> dflt, sections |-> sect] :
        dflt \in Options({"k1"}),
        sect \in UNION { [names -> Options({"k1", "k2"})] : names \in SUBSET {"s1", "s2"} } }

NoConfig == [defaults |-> <<>>, sections |-> <<>>]

DictInit ==
    /\ InitCache /\ InitConc
    /\ flat = <<>> /\ cleaned = <<>> /\ again = <<>>
    /\ \/ mode = "mapping" /\ mapping \in NestedMappings /\ config = NoConfig
       \/ mode = "config" /\ mapping = <<>> /\ config \in Configs

\* cleaned = cleanup_dict(mapping)
Sanitize ==
    /\ mode = "mapping"
    /\ cleaned' = cleanup_dict(mapping)
    /\ mode' = "cleaned"
    /\ UNCHANGED <<mapping, config, flat, again, cacheVars, concVars>>

\* again = cleanup_dict(cleaned)
SanitizeAgain ==
    /\ mode = "cleaned"
    /\ again' = cleanup_dict(cleaned)
    /\ mode' = "again"
    /\ UNCHANGED <<mapping, config, flat, cleaned, cacheVars, concVars>>

\* flat = configparser_to_dict(config)
Flatten ==
    /\ mode = "config"
    /\ flat' = configparser_to_dict(config)
    /\ mode' = "flat"
    /\ UNCHANGED <<mapping, config, cleaned, again, cacheVars, concVars>>

\* cleaned = cleanup_dict(flat)
SanitizeFlat ==
    /\ mode = "flat"
    /\ cleaned' = cleanup_dict(flat)
    /\ mode' = "flatcleaned"
    /\ UNCHANGED <<mapping, config, flat, again, cacheVars, concVars>>

DictNext == Sanitize \/ SanitizeAgain \/ Flatten \/ SanitizeFlat

DictSpec == DictInit /\ [][DictNext]_vars

AbsentOrEmpty(value) == value = PyNone \/ value = Str("")

\* `c` is `m` without its absent and empty-string values, level by level
RECURSIVE Sanitized(_, _)
Sanitized(m, c) ==
    /\ DOMAIN c \subseteq DOMAIN m
    /\ \A key \in DOMAIN m :
          IF m[key].type = "dict"
            THEN /\ key \in DOMAIN c
                 /\ c[key].type = "dict"
                 /\ Sanitized(m[key].items, c[key].items)
            ELSE /\ key \in DOMAIN c <=> ~AbsentOrEmpty(m[key])
                 /\ key \in DOMAIN c => c[key] = m[key]

\* C7: cleanup_dict keeps every key whose value is a mapping, with the value
\* sanitized in turn, and keeps a key of any other value, unchanged, exactly
\* when the value is neither None nor the empty string: 0, False and [] stay.
C7_Sanitized == mode \in {"cleaned", "again"} => Sanitized(mapping, cleaned)

C7_Witness ==
    /\ mode = "cleaned"
    /\ \E k1 \in DOMAIN mapping, k2 \in DOMAIN cleaned :
          /\ k1 # k2
          /\ mapping[k1].type = "dict"
          /\ DOMAIN mapping[k1].items # {}
          /\ DOMAIN cleaned[k1].items = {}
          /\ cleaned[k2] \in {PyZero, PyFalse, EmptyList}

CleanConfig(cfg) ==
    /\ \A key \in DOMAIN cfg.defaults : ~AbsentOrEmpty(cfg.defaults[key])
    /\ \A section \in DOMAIN cfg.sections :
          \A key \in DOMAIN cfg.sections[section] :
              ~AbsentOrEmpty(cfg.sections[section][key])

\* C8: sanitizing the flattened form of a config that holds no None and no
\* empty string changes nothing, and sanitizing a sanitized mapping changes
\* nothing.
C8_FixedPoint ==
    /\ (mode = "flatcleaned" /\ CleanConfig(config)) => cleaned = flat
    /\ mode = "again" => again = cleaned

C8_Witness ==
    /\ mode = "flatcleaned"
    /\ CleanConfig(config)
    /\ DOMAIN flat = {"s1", "s2"}
    /\ DOMAIN flat["s1"].items = {}
    /\ DOMAIN flat["s2"].items = {"k1", "k2"}
    /\ cleaned = flat

\* a mapping that lost entries, down to an empty sub-mapping, sanitized again
C8_SanitizedTwice ==
    /\ mode = "again"
    /\ again = cleaned
    /\ cleaned # mapping
    /\ \E key \in DOMAIN cleaned : cleaned[key].type = "dict" /\ DOMAIN cleaned[key].items = {}
====
